---- MODULE Spec2Model ----
(***************************************************************************)
(* Model of the go-pi-lcd1602 driver: the construction of a display (New,  *)
(* initPins, Open), the LCD bus driver (Write, enable, WriteLine,          *)
(* CreateChar, SetCustomCharacters, Initialize and the instructions it is  *)
(* made of) and the SynchronizedLCD wrapper (WriteLines, Animate).  Every  *)
(* goroutine is a process with a call stack of frames; every action is    *)
(* one atomic step of one goroutine.                                       *)
(***************************************************************************)
EXTENDS Integers, Sequences, FiniteSets, TLC

\* ------------------------------------------------------------------ bounds
\* number of concurrent callers of the synchronized display
NCallers == 2
\* the total number of top-level calls the callers make
MaxCalls == 2
\* largest number of frames of an animation
MaxFrames == 3
\* longest text, in bytes, handed to WriteLine in the sequential model
MaxLen == 3
\* largest line width of the sequential model (besides the 16 of the example)
MaxWidth == 3
\* New is called with 0..MaxPins data pins
MaxPins == 9
\* SetCustomCharacters is called with 0..MaxGlyphs glyphs
MaxGlyphs == 9

\* ------------------------------------------------------- program constants
RSData == 1
RSInstruction == 0
Line1 == 128
Line2 == 192
\* capacity of the completion channel made by Animate
DoneCap == 1
\* the line width of the example program
ExampleWidth == 16
\* the line width of the display in the concurrent model
ConcWidth == 1

\* the line width of the display shared by goroutines
BusWidth == 2
\* the CGRAM slot the concurrent CreateChar loads
BusSlot == 3

\* the waits, in microseconds
ExecutionTimeDefault == 40
ExecutionTimeReturnHome == 1520
SettleTime == 10000

NoProc == 0
Low == 0
High == 1

\* ----------------------------------------------------------- uint8 helpers
Pow2(k) == 2 ^ k

Bit(b, k) == (b \div Pow2(k)) % 2

\* a & b on uint8
BitAnd(a, b) ==
  LET F[k \in 0..8] == IF k = 8 THEN 0
                       ELSE Pow2(k) * Bit(a, k) * Bit(b, k) + F[k + 1]
  IN F[0]

\* a | b on uint8
BitOr(a, b) ==
  LET F[k \in 0..8] == IF k = 8 THEN 0
                       ELSE Pow2(k) * (IF Bit(a, k) + Bit(b, k) > 0 THEN 1 ELSE 0) + F[k + 1]
  IN F[0]

\* base << i on uint8
Shl8(base, i) == (base * Pow2(i)) % 256

\* uint8(c) of a rune or an int
Uint8(c) == c % 256

\* a slip of the test: any pin whose bit is clear goes high
setBitToPin_Inverted(data, position) ==
  IF BitAnd(data, position) = 0 THEN High ELSE Low

\* the level setBitToPin drives the pin to
setBitToPin(data, position) ==
  IF BitAnd(data, position) = position THEN High ELSE Low

\* ------------------------------------------------- strings, as Go sees them
\* A Go string is a sequence of bytes; Sprintf's width counts runes, a slice
\* expression cuts bytes, and range decodes UTF-8 (an undecodable byte is
\* the rune U+FFFD of size 1).
RuneError == 65533
Space == 32

\* number of bytes the UTF-8 sequence led by byte b0 needs (0: no lead byte)
RuneSize(b0) ==
  IF b0 < 128 THEN 1
  ELSE IF b0 >= 194 /\ b0 <= 223 THEN 2
  ELSE IF b0 >= 224 /\ b0 <= 239 THEN 3
  ELSE IF b0 >= 240 /\ b0 <= 244 THEN 4
  ELSE 0

\* the range the second byte of the sequence led by b0 must lie in
AcceptLo(b0) == IF b0 = 224 THEN 160 ELSE IF b0 = 240 THEN 144 ELSE 128
AcceptHi(b0) == IF b0 = 237 THEN 159 ELSE IF b0 = 244 THEN 143 ELSE 191

IsCont(b) == b >= 128 /\ b <= 191

\* the rune that starts at byte i of s, and its size in bytes
DecodeRune(s, i) ==
  LET b0 == s[i]
      sz == RuneSize(b0)
      bad == [r |-> RuneError, size |-> 1]
  IN IF sz = 1 THEN [r |-> b0, size |-> 1]
     ELSE IF sz = 0 \/ i + sz - 1 > Len(s) THEN bad
     ELSE IF s[i + 1] < AcceptLo(b0) \/ s[i + 1] > AcceptHi(b0) THEN bad
     ELSE IF sz = 2 THEN [r |-> (b0 % 32) * 64 + (s[i + 1] % 64), size |-> 2]
     ELSE IF ~IsCont(s[i + 2]) THEN bad
     ELSE IF sz = 3
       THEN [r |-> (b0 % 16) * 4096 + (s[i + 1] % 64) * 64 + (s[i + 2] % 64), size |-> 3]
     ELSE IF ~IsCont(s[i + 3]) THEN bad
     ELSE [r |-> (b0 % 8) * 262144 + (s[i + 1] % 64) * 4096
                 + (s[i + 2] % 64) * 64 + (s[i + 3] % 64), size |-> 4]

\* the runes `for _, c := range s` yields
RECURSIVE RunesFrom(_, _)
RunesFrom(s, i) ==
  IF i > Len(s) THEN <<>>
  ELSE LET d == DecodeRune(s, i) IN <<d.r>> \o RunesFrom(s, i + d.size)

Runes(s) == RunesFrom(s, 1)

\* utf8.RuneCountInString
RuneCount(s) == Len(Runes(s))

Spaces(n) == [k \in 1..n |-> Space]

\* fmt.Sprintf(fmt.Sprintf("%%%ds", width), s): s right-aligned in a field
\* of width runes
Sprintf(width, s) ==
  IF width > RuneCount(s) THEN Spaces(width - RuneCount(s)) \o s ELSE s

\* s[:width], a cut of bytes
SliceTo(s, width) == SubSeq(s, 1, width)

\* the bytes WriteLine sends as data writes, in order
LineData(s, width) ==
  LET r == Runes(SliceTo(Sprintf(width, s), width))
  IN [k \in 1..Len(r) |-> Uint8(r[k])]

\* ------------------------------------------------------------------- state
VARIABLES
  LineWidth,   \* LCD.LineWidth
  DataPins,    \* len(LCD.DataPins)
  RS,          \* level of the register-select pin
  E,           \* level of the enable pin
  D,           \* levels of the data pins, D[i] for LCD.DataPins[i]
  writelock,   \* LCD.writelock: NoProc when unlocked, else who locked it
  linelock,    \* LCD.linelock
  line1,       \* SynchronizedLCD.line1
  line2,       \* SynchronizedLCD.line2
  stack,       \* the call stack of every goroutine, innermost frame last
  call,        \* the latest top-level call of every caller
  ncalls,      \* number of top-level calls made so far
  anim,        \* the animation object every drive loop runs
  done,        \* the completion channel of every drive loop
  latch,       \* controller: the high nibble taken at the first pulse of a byte
  bus,         \* controller: the bytes latched so far, with who wrote them
  hist,        \* per drive loop: unlocks and sends performed, frames written
  rpioPrepared, \* the package variable rpioPrepared
  gpio,        \* the GPIO subsystem: times opened, pins made outputs, process exit
  ret,         \* what the latest call of New returned
  sleeps       \* the time.Sleep calls made outside enable: where and how long

vars == <<LineWidth, DataPins, RS, E, D, writelock, linelock, line1, line2,
          stack, call, ncalls, anim, done, latch, bus, hist,
          rpioPrepared, gpio, ret, sleeps>>

pinVars == <<RS, E, D>>
lockVars == <<writelock, linelock, line1, line2>>
envVars == <<rpioPrepared, gpio, ret>>
cfgVars == <<LineWidth, DataPins, envVars, sleeps>>
animVars == <<anim, done, hist>>

Callers == 1..NCallers
\* the goroutine started by the k-th top-level call, should it be Animate
Tasks == (NCallers + 1)..(NCallers + MaxCalls)
Procs == Callers \cup Tasks
Levels == {Low, High}
NoCall == [fn |-> "none"]
\* New has not returned
NoResult == [lcd |-> FALSE, err |-> FALSE]
\* no pin has been made an output
NoOutputs == [rs |-> FALSE, e |-> FALSE, data |-> {}]
\* the pins initPins makes outputs for a display with n data pins
AllOutputs(n) == [rs |-> TRUE, e |-> TRUE, data |-> 0..(n - 1)]
NoAnimation == [n |-> 0, step |-> 0, width |-> 0]
\* what is recorded of a drive loop: the caller and the line of its Animate
\* call, and how often it has unlocked, sent, been received from and written
NoHistory == [owner |-> NoProc, line |-> 0, unlocks |-> 0, sends |-> 0,
              recvs |-> 0, frames |-> 0]

\* the number of the top-level call p is in, a drive loop being part of the
\* Animate call that started it
CallId(p) == IF p \in Callers THEN call[p].id ELSE p - NCallers
\* the drive loops that hold a line: locked by Animate and not yet unlocked
Animating(line) ==
  {t \in Tasks : hist[t].owner # NoProc /\ hist[t].line = line /\ hist[t].unlocks = 0}

\* --------------------------------------------------------- frames and stack
Top(p) == stack[p][Len(stack[p])]
At(p, fn, pc) == stack[p] # <<>> /\ Top(p).fn = fn /\ Top(p).pc = pc
Idle(p) == stack[p] = <<>>

\* the running function moves to pc
Goto(p, pc) == [stack EXCEPT ![p][Len(stack[p])].pc = pc]
\* the running function calls f and will resume at pc
Push(p, pc, f) == [stack EXCEPT ![p] = Append([@ EXCEPT ![Len(@)].pc = pc], f)]
\* the running function returns
Pop(p) == [stack EXCEPT ![p] = SubSeq(@, 1, Len(@) - 1)]

WriteFrame(data, mode) ==
  [fn |-> "Write", pc |-> "lock", data |-> data, mode |-> mode, pulses |-> 0]
EnableFrame == [fn |-> "enable", pc |-> "high"]

\* the line the write in progress belongs to: that of the innermost WriteLine
LineOf(p) ==
  LET S == {k \in 1..Len(stack[p]) : stack[p][k].fn = "WriteLine"}
  IN IF S = {} THEN 0 ELSE stack[p][CHOOSE k \in S : \A j \in S : j <= k].line

\* the value the data pins show, pin i being bit i
PinValue == LET F[i \in 0..DataPins] ==
                  IF i = DataPins THEN 0 ELSE D[i] * Pow2(i) + F[i + 1]
            IN F[0]

BusEntry(p, byte) ==
  [rs |-> RS, data |-> byte, proc |-> p, id |-> CallId(p), op |-> stack[p][1].fn,
   line |-> LineOf(p)]

\* -------------------------------------------------------------- LCD.Write
\* a slip: Write goes on without waiting for the bus lock
Write_Lock_NoWait(p) ==
  /\ At(p, "Write", "lock")
  /\ writelock' = p
  /\ stack' = Goto(p, "rs")
  /\ UNCHANGED <<cfgVars, pinVars, linelock, line1, line2, call, ncalls, animVars, latch, bus>>

Write_Lock(p) ==
  /\ At(p, "Write", "lock")
  /\ writelock = NoProc
  /\ writelock' = p
  /\ stack' = Goto(p, "rs")
  /\ UNCHANGED <<cfgVars, pinVars, linelock, line1, line2, call, ncalls, animVars, latch, bus>>

Write_SetRS(p) ==
  /\ At(p, "Write", "rs")
  /\ RS' = IF Top(p).mode = RSData THEN High ELSE Low
  /\ stack' = Goto(p, "low")
  /\ UNCHANGED <<cfgVars, E, D, lockVars, call, ncalls, animVars, latch, bus>>

Write_DataLow(p) ==
  /\ At(p, "Write", "low")
  /\ D' = [i \in 0..(DataPins - 1) |-> Low]
  /\ stack' = Goto(p, "set")
  /\ UNCHANGED <<cfgVars, RS, E, lockVars, call, ncalls, animVars, latch, bus>>

\* a slip: the high nibble goes on the pins but is never strobed
Write_SetHigh_NoEnable(p) ==
  /\ At(p, "Write", "set")
  /\ DataPins = 4
  /\ D' = [i \in 0..(DataPins - 1) |-> setBitToPin(Top(p).data, Shl8(16, i))]
  /\ stack' = Goto(p, "lo")
  /\ UNCHANGED <<cfgVars, RS, E, lockVars, call, ncalls, animVars, latch, bus>>

\* four pins: the bits 0x10<<i, then the first enable
Write_SetHigh(p) ==
  /\ At(p, "Write", "set")
  /\ DataPins = 4
  /\ D' = [i \in 0..(DataPins - 1) |-> setBitToPin(Top(p).data, Shl8(16, i))]
  /\ stack' = Push(p, "lo", EnableFrame)
  /\ UNCHANGED <<cfgVars, RS, E, lockVars, call, ncalls, animVars, latch, bus>>

\* four pins: the bits 0x01<<i, then the last enable
Write_SetLow(p) ==
  /\ At(p, "Write", "lo")
  /\ D' = [i \in 0..(DataPins - 1) |-> setBitToPin(Top(p).data, Shl8(1, i))]
  /\ stack' = Push(p, "ret", EnableFrame)
  /\ UNCHANGED <<cfgVars, RS, E, lockVars, call, ncalls, animVars, latch, bus>>

\* eight pins: the bits 0x01<<i, then the only enable
Write_SetAll(p) ==
  /\ At(p, "Write", "set")
  /\ DataPins # 4
  /\ D' = [i \in 0..(DataPins - 1) |-> setBitToPin(Top(p).data, Shl8(1, i))]
  /\ stack' = Push(p, "ret", EnableFrame)
  /\ UNCHANGED <<cfgVars, RS, E, lockVars, call, ncalls, animVars, latch, bus>>

\* the deferred unlock, and the return
Write_Return(p) ==
  /\ At(p, "Write", "ret")
  /\ writelock' = NoProc
  /\ stack' = Pop(p)
  /\ UNCHANGED <<cfgVars, pinVars, linelock, line1, line2, call, ncalls, animVars, latch, bus>>

\* -------------------------------------------------------------- LCD.enable
enable_High(p) ==
  /\ At(p, "enable", "high")
  /\ E' = High
  /\ stack' = Goto(p, "low")
  /\ UNCHANGED <<cfgVars, RS, D, lockVars, call, ncalls, animVars, latch, bus>>

\* the falling edge: the controller takes what the pins show, a byte at once
\* on eight pins, the high nibble and then the low nibble on four
enable_Low(p) ==
  /\ At(p, "enable", "low")
  /\ E' = Low
  /\ IF DataPins = 4 /\ latch = <<>>
       THEN latch' = <<PinValue>> /\ bus' = bus
       ELSE /\ latch' = <<>>
            /\ bus' = Append(bus, BusEntry(p,
                        IF DataPins = 4 THEN latch[1] * 16 + PinValue ELSE PinValue))
  /\ stack' = [stack EXCEPT ![p] =
                 [@ EXCEPT ![Len(@)].pc = "wait", ![Len(@) - 1].pulses = @ + 1]]
  /\ UNCHANGED <<cfgVars, RS, D, lockVars, call, ncalls, animVars>>

\* the execution time has passed
enable_Wait(p) ==
  /\ At(p, "enable", "wait")
  /\ stack' = Pop(p)
  /\ UNCHANGED <<cfgVars, pinVars, lockVars, call, ncalls, animVars, latch, bus>>

\* ----------------------------------------------------------- LCD.WriteLine
WriteLineFrame(s, line) ==
  [fn |-> "WriteLine", pc |-> "lock", s |-> s, line |-> line, i |-> 1]

\* s after the two Sprintf calls and the slice expression
Format(s, width) == SliceTo(Sprintf(width, s), width)

\* a slip: WriteLine goes on without waiting for the line-operation lock
WriteLine_Lock_NoWait(p) ==
  /\ At(p, "WriteLine", "lock")
  /\ linelock' = p
  /\ stack' = [stack EXCEPT ![p][Len(stack[p])] =
                 [@ EXCEPT !.pc = "addr", !.s = Format(@, LineWidth)]]
  /\ UNCHANGED <<cfgVars, pinVars, writelock, line1, line2, call, ncalls, animVars, latch, bus>>

WriteLine_Lock(p) ==
  /\ At(p, "WriteLine", "lock")
  /\ linelock = NoProc
  /\ linelock' = p
  /\ stack' = [stack EXCEPT ![p][Len(stack[p])] =
                 [@ EXCEPT !.pc = "addr", !.s = Format(@, LineWidth)]]
  /\ UNCHANGED <<cfgVars, pinVars, writelock, line1, line2, call, ncalls, animVars, latch, bus>>

\* a slip: the line-operation lock is given up once the address is written
WriteLine_Addr_Unlock(p) ==
  /\ At(p, "WriteLine", "addr")
  /\ linelock' = NoProc
  /\ stack' = Push(p, "loop", WriteFrame(Uint8(Top(p).line), RSInstruction))
  /\ UNCHANGED <<cfgVars, pinVars, writelock, line1, line2, call, ncalls, animVars, latch, bus>>

WriteLine_Addr(p) ==
  /\ At(p, "WriteLine", "addr")
  /\ stack' = Push(p, "loop", WriteFrame(Uint8(Top(p).line), RSInstruction))
  /\ UNCHANGED <<cfgVars, pinVars, lockVars, call, ncalls, animVars, latch, bus>>

\* one turn of the range loop: the rune at byte i goes out as a data write
WriteLine_Data(p) ==
  /\ At(p, "WriteLine", "loop")
  /\ Top(p).i <= Len(Top(p).s)
  /\ LET c == DecodeRune(Top(p).s, Top(p).i)
     IN stack' = [stack EXCEPT ![p] =
                    Append([@ EXCEPT ![Len(@)].i = @ + c.size],
                           WriteFrame(Uint8(c.r), RSData))]
  /\ UNCHANGED <<cfgVars, pinVars, lockVars, call, ncalls, animVars, latch, bus>>

\* the loop is over: the deferred unlock, and the return
WriteLine_Return(p) ==
  /\ At(p, "WriteLine", "loop")
  /\ Top(p).i > Len(Top(p).s)
  /\ linelock' = NoProc
  /\ stack' = Pop(p)
  /\ UNCHANGED <<cfgVars, pinVars, writelock, line1, line2, call, ncalls, animVars, latch, bus>>

\* ---------------------------------------------------------- LCD.CreateChar
CreateCharFrame(position, data) ==
  [fn |-> "CreateChar", pc |-> "check", position |-> position, data |-> data, i |-> 1]

\* a slip of the range check: position 8 passes
BadPosition_OffByOne(position) == position > 8

\* the check `position > 7` on the uint8 position
BadPosition(position) == position > 7

CreateChar_Reject(p) ==
  /\ At(p, "CreateChar", "check")
  /\ BadPosition(Top(p).position)
  /\ stack' = Pop(p)
  /\ UNCHANGED <<cfgVars, pinVars, lockVars, call, ncalls, animVars, latch, bus>>

CreateChar_Addr(p) ==
  /\ At(p, "CreateChar", "check")
  /\ ~BadPosition(Top(p).position)
  /\ stack' = Push(p, "loop",
                   WriteFrame(BitOr(64, Shl8(Top(p).position, 3)), RSInstruction))
  /\ UNCHANGED <<cfgVars, pinVars, lockVars, call, ncalls, animVars, latch, bus>>

CreateChar_Row(p) ==
  /\ At(p, "CreateChar", "loop")
  /\ Top(p).i <= Len(Top(p).data)
  /\ stack' = [stack EXCEPT ![p] =
                 Append([@ EXCEPT ![Len(@)].i = @ + 1],
                        WriteFrame(Top(p).data[Top(p).i], RSData))]
  /\ UNCHANGED <<cfgVars, pinVars, lockVars, call, ncalls, animVars, latch, bus>>

CreateChar_Return(p) ==
  /\ At(p, "CreateChar", "loop")
  /\ Top(p).i > Len(Top(p).data)
  /\ stack' = Pop(p)
  /\ UNCHANGED <<cfgVars, pinVars, lockVars, call, ncalls, animVars, latch, bus>>

\* ------------------------------------------------------------- sync.Mutex
LineMutex(line) == IF line = Line1 THEN line1 ELSE line2

\* -------------------------------------------- the animation handed to Animate
\* An animation of n frames: Done reports true once Delay has advanced it n
\* times, Content is the text of the current frame, Width takes the hint.
AnimationDone(a) == a.step >= a.n
AnimationContent(a) == <<48 + a.step>>
AnimationDelay(a) == [a EXCEPT !.step = @ + 1]
AnimationWidth(a, w) == [a EXCEPT !.width = w]

\* ------------------------------------------------ SynchronizedLCD.WriteLines
WriteLinesFrame(lines) == [fn |-> "WriteLines", pc |-> "check1", lines |-> lines]

\* a slip: the first line is written without waiting for its lock
WriteLines_Lock1_NoWait(p) ==
  /\ At(p, "WriteLines", "check1")
  /\ Len(Top(p).lines) > 0
  /\ line1' = p
  /\ stack' = Push(p, "unlock1", WriteLineFrame(Top(p).lines[1], Line1))
  /\ UNCHANGED <<cfgVars, pinVars, writelock, linelock, line2, call, ncalls, animVars, latch, bus>>

\* len(lines) > 0: lock line1 and call WriteLine
WriteLines_Lock1(p) ==
  /\ At(p, "WriteLines", "check1")
  /\ Len(Top(p).lines) > 0
  /\ line1 = NoProc
  /\ line1' = p
  /\ stack' = Push(p, "unlock1", WriteLineFrame(Top(p).lines[1], Line1))
  /\ UNCHANGED <<cfgVars, pinVars, writelock, linelock, line2, call, ncalls, animVars, latch, bus>>

WriteLines_Skip1(p) ==
  /\ At(p, "WriteLines", "check1")
  /\ ~(Len(Top(p).lines) > 0)
  /\ stack' = Goto(p, "check2")
  /\ UNCHANGED <<cfgVars, pinVars, lockVars, call, ncalls, animVars, latch, bus>>

\* a slip: the first line is written and line1 is left locked
WriteLines_Unlock1_Forgotten(p) ==
  /\ At(p, "WriteLines", "unlock1")
  /\ stack' = Goto(p, "check2")
  /\ UNCHANGED <<cfgVars, pinVars, lockVars, call, ncalls, animVars, latch, bus>>

WriteLines_Unlock1(p) ==
  /\ At(p, "WriteLines", "unlock1")
  /\ line1' = NoProc
  /\ stack' = Goto(p, "check2")
  /\ UNCHANGED <<cfgVars, pinVars, writelock, linelock, line2, call, ncalls, animVars, latch, bus>>

\* len(lines) > 1: lock line2 and call WriteLine
WriteLines_Lock2(p) ==
  /\ At(p, "WriteLines", "check2")
  /\ Len(Top(p).lines) > 1
  /\ line2 = NoProc
  /\ line2' = p
  /\ stack' = Push(p, "unlock2", WriteLineFrame(Top(p).lines[2], Line2))
  /\ UNCHANGED <<cfgVars, pinVars, writelock, linelock, line1, call, ncalls, animVars, latch, bus>>

WriteLines_Skip2(p) ==
  /\ At(p, "WriteLines", "check2")
  /\ ~(Len(Top(p).lines) > 1)
  /\ stack' = Pop(p)
  /\ UNCHANGED <<cfgVars, pinVars, lockVars, call, ncalls, animVars, latch, bus>>

WriteLines_Unlock2(p) ==
  /\ At(p, "WriteLines", "unlock2")
  /\ line2' = NoProc
  /\ stack' = Pop(p)
  /\ UNCHANGED <<cfgVars, pinVars, writelock, linelock, line1, call, ncalls, animVars, latch, bus>>

\* --------------------------------------------------- SynchronizedLCD.Animate
AnimateFrame(n, line, t) ==
  [fn |-> "Animate", pc |-> "lock", n |-> n, line |-> line, t |-> t]
DriveFrame(line) == [fn |-> "func1", pc |-> "width", line |-> line]

\* a slip: the lock of the other line is taken
Animate_Lock_OtherLine(p) ==
  /\ At(p, "Animate", "lock")
  /\ LineMutex(IF Top(p).line = Line1 THEN Line2 ELSE Line1) = NoProc
  /\ IF Top(p).line = Line1
       THEN line2' = p /\ line1' = line1
       ELSE line1' = p /\ line2' = line2
  /\ done' = [done EXCEPT ![Top(p).t] = <<>>]
  /\ anim' = [anim EXCEPT ![Top(p).t] = [NoAnimation EXCEPT !.n = Top(p).n]]
  /\ hist' = [hist EXCEPT ![Top(p).t] =
                [NoHistory EXCEPT !.owner = p, !.line = Top(p).line]]
  /\ stack' = Goto(p, "go")
  /\ UNCHANGED <<cfgVars, pinVars, writelock, linelock, call, ncalls, latch, bus>>

\* make the channel, lock the mutex of the line
Animate_Lock(p) ==
  /\ At(p, "Animate", "lock")
  /\ LineMutex(Top(p).line) = NoProc
  /\ IF Top(p).line = Line1
       THEN line1' = p /\ line2' = line2
       ELSE line2' = p /\ line1' = line1
  /\ done' = [done EXCEPT ![Top(p).t] = <<>>]
  /\ anim' = [anim EXCEPT ![Top(p).t] = [NoAnimation EXCEPT !.n = Top(p).n]]
  /\ hist' = [hist EXCEPT ![Top(p).t] =
                [NoHistory EXCEPT !.owner = p, !.line = Top(p).line]]
  /\ stack' = Goto(p, "go")
  /\ UNCHANGED <<cfgVars, pinVars, writelock, linelock, call, ncalls, latch, bus>>

\* start the drive loop as a goroutine and return the channel
Animate_Go(p) ==
  /\ At(p, "Animate", "go")
  /\ stack' = [stack EXCEPT ![p] = <<>>, ![Top(p).t] = <<DriveFrame(Top(p).line)>>]
  /\ UNCHANGED <<cfgVars, pinVars, lockVars, call, ncalls, animVars, latch, bus>>

\* animation.Width(l.Width())
func1_Width(t) ==
  /\ At(t, "func1", "width")
  /\ anim' = [anim EXCEPT ![t] = AnimationWidth(@, LineWidth)]
  /\ stack' = Goto(t, "done")
  /\ UNCHANGED <<cfgVars, pinVars, lockVars, call, ncalls, done, hist, latch, bus>>

\* not done: write the content of the frame to the line
func1_Frame(t) ==
  /\ At(t, "func1", "done")
  /\ ~AnimationDone(anim[t])
  /\ stack' = Push(t, "delay", WriteLineFrame(AnimationContent(anim[t]), Top(t).line))
  /\ hist' = [hist EXCEPT ![t].frames = @ + 1]
  /\ UNCHANGED <<cfgVars, pinVars, lockVars, call, ncalls, anim, done, latch, bus>>

func1_Delay(t) ==
  /\ At(t, "func1", "delay")
  /\ anim' = [anim EXCEPT ![t] = AnimationDelay(@)]
  /\ stack' = Goto(t, "done")
  /\ UNCHANGED <<cfgVars, pinVars, lockVars, call, ncalls, done, hist, latch, bus>>

\* a slip: the loop is left, and the line unlocked, after the first query
func1_Unlock_Early(t) ==
  /\ At(t, "func1", "done")
  /\ IF Top(t).line = Line1
       THEN line1' = NoProc /\ line2' = line2
       ELSE line2' = NoProc /\ line1' = line1
  /\ hist' = [hist EXCEPT ![t].unlocks = @ + 1]
  /\ stack' = Goto(t, "send")
  /\ UNCHANGED <<cfgVars, pinVars, writelock, linelock, call, ncalls, anim, done, latch, bus>>

\* done: unlock the mutex of the line
func1_Unlock(t) ==
  /\ At(t, "func1", "done")
  /\ AnimationDone(anim[t])
  /\ IF Top(t).line = Line1
       THEN line1' = NoProc /\ line2' = line2
       ELSE line2' = NoProc /\ line1' = line1
  /\ hist' = [hist EXCEPT ![t].unlocks = @ + 1]
  /\ stack' = Goto(t, "send")
  /\ UNCHANGED <<cfgVars, pinVars, writelock, linelock, call, ncalls, anim, done, latch, bus>>

\* done <- true, which waits while the buffer of the channel is full
func1_Send(t) ==
  /\ At(t, "func1", "send")
  /\ Len(done[t]) < DoneCap
  /\ done' = [done EXCEPT ![t] = Append(@, TRUE)]
  /\ hist' = [hist EXCEPT ![t].sends = @ + 1]
  /\ stack' = Pop(t)
  /\ UNCHANGED <<cfgVars, pinVars, lockVars, call, ncalls, anim, latch, bus>>

\* the caller of Animate takes the value from the channel it was given
Receive(p) ==
  /\ Idle(p)
  /\ call[p].fn = "Animate"
  /\ LET t == NCallers + call[p].id
     IN /\ done[t] # <<>>
        /\ done' = [done EXCEPT ![t] = Tail(@)]
        /\ hist' = [hist EXCEPT ![t].recvs = @ + 1]
  /\ UNCHANGED <<cfgVars, pinVars, lockVars, stack, call, ncalls, anim, latch, bus>>

\* ------------------------------------------- the instructions and Initialize
\* time.Sleep(d) called by p outside enable, after the bus writes made so far
Slept(p, d) == Append(sleeps, [proc |-> p, after |-> Len(bus), d |-> d])

ResetFrame == [fn |-> "Reset", pc |-> "first"]
ReturnHomeFrame == [fn |-> "ReturnHome", pc |-> "write"]
ClearFrame == [fn |-> "Clear", pc |-> "write"]
EntryModeSetFrame(increment, shift) ==
  [fn |-> "EntryModeSet", pc |-> "write", increment |-> increment, shift |-> shift]
DisplayModeFrame(display, cursor, blink) ==
  [fn |-> "DisplayMode", pc |-> "write", display |-> display, cursor |-> cursor,
   blink |-> blink]
InitializeFrame == [fn |-> "Initialize", pc |-> "reset"]

\* l.Write(0x33, RSInstruction)
Reset_First(p) ==
  /\ At(p, "Reset", "first")
  /\ stack' = Push(p, "wait1", WriteFrame(51, RSInstruction))
  /\ UNCHANGED <<cfgVars, pinVars, lockVars, call, ncalls, animVars, latch, bus>>

\* time.Sleep(ExecutionTimeDefault)
Reset_Wait1(p) ==
  /\ At(p, "Reset", "wait1")
  /\ sleeps' = Slept(p, ExecutionTimeDefault)
  /\ stack' = Goto(p, "second")
  /\ UNCHANGED <<LineWidth, DataPins, envVars, pinVars, lockVars, call, ncalls,
                 animVars, latch, bus>>

\* l.Write(0x32, RSInstruction)
Reset_Second(p) ==
  /\ At(p, "Reset", "second")
  /\ stack' = Push(p, "wait2", WriteFrame(50, RSInstruction))
  /\ UNCHANGED <<cfgVars, pinVars, lockVars, call, ncalls, animVars, latch, bus>>

\* time.Sleep(ExecutionTimeDefault), and the return
Reset_Wait2(p) ==
  /\ At(p, "Reset", "wait2")
  /\ sleeps' = Slept(p, ExecutionTimeDefault)
  /\ stack' = Pop(p)
  /\ UNCHANGED <<LineWidth, DataPins, envVars, pinVars, lockVars, call, ncalls,
                 animVars, latch, bus>>

\* l.Write(0x02, RSInstruction)
ReturnHome_Write(p) ==
  /\ At(p, "ReturnHome", "write")
  /\ stack' = Push(p, "sleep", WriteFrame(2, RSInstruction))
  /\ UNCHANGED <<cfgVars, pinVars, lockVars, call, ncalls, animVars, latch, bus>>

\* time.Sleep(ExecutionTimeReturnHome), and the return
ReturnHome_Sleep(p) ==
  /\ At(p, "ReturnHome", "sleep")
  /\ sleeps' = Slept(p, ExecutionTimeReturnHome)
  /\ stack' = Pop(p)
  /\ UNCHANGED <<LineWidth, DataPins, envVars, pinVars, lockVars, call, ncalls,
                 animVars, latch, bus>>

\* instruction := 0x04, |= 0x02 when increment, |= 0x01 when shift
EntryMode(increment, shift) ==
  LET a == 4
      b == IF increment THEN BitOr(a, 2) ELSE a
  IN IF shift THEN BitOr(b, 1) ELSE b

EntryModeSet_Write(p) ==
  /\ At(p, "EntryModeSet", "write")
  /\ stack' = Push(p, "ret", WriteFrame(EntryMode(Top(p).increment, Top(p).shift),
                                        RSInstruction))
  /\ UNCHANGED <<cfgVars, pinVars, lockVars, call, ncalls, animVars, latch, bus>>

EntryModeSet_Return(p) ==
  /\ At(p, "EntryModeSet", "ret")
  /\ stack' = Pop(p)
  /\ UNCHANGED <<cfgVars, pinVars, lockVars, call, ncalls, animVars, latch, bus>>

\* instruction := 0x08, |= 0x04 when display, |= 0x02 when cursor, |= 0x01
\* when blink
DisplayControl(display, cursor, blink) ==
  LET a == 8
      b == IF display THEN BitOr(a, 4) ELSE a
      c == IF cursor THEN BitOr(b, 2) ELSE b
  IN IF blink THEN BitOr(c, 1) ELSE c

DisplayMode_Write(p) ==
  /\ At(p, "DisplayMode", "write")
  /\ stack' = Push(p, "ret", WriteFrame(DisplayControl(Top(p).display, Top(p).cursor,
                                                       Top(p).blink), RSInstruction))
  /\ UNCHANGED <<cfgVars, pinVars, lockVars, call, ncalls, animVars, latch, bus>>

DisplayMode_Return(p) ==
  /\ At(p, "DisplayMode", "ret")
  /\ stack' = Pop(p)
  /\ UNCHANGED <<cfgVars, pinVars, lockVars, call, ncalls, animVars, latch, bus>>

\* l.Write(0x01, RSInstruction)
Clear_Write(p) ==
  /\ At(p, "Clear", "write")
  /\ stack' = Push(p, "ret", WriteFrame(1, RSInstruction))
  /\ UNCHANGED <<cfgVars, pinVars, lockVars, call, ncalls, animVars, latch, bus>>

Clear_Return(p) ==
  /\ At(p, "Clear", "ret")
  /\ stack' = Pop(p)
  /\ UNCHANGED <<cfgVars, pinVars, lockVars, call, ncalls, animVars, latch, bus>>

\* l.Reset()
Initialize_Reset(p) ==
  /\ At(p, "Initialize", "reset")
  /\ stack' = Push(p, "entry", ResetFrame)
  /\ UNCHANGED <<cfgVars, pinVars, lockVars, call, ncalls, animVars, latch, bus>>

\* l.EntryModeSet(true, false)
Initialize_EntryModeSet(p) ==
  /\ At(p, "Initialize", "entry")
  /\ stack' = Push(p, "display", EntryModeSetFrame(TRUE, FALSE))
  /\ UNCHANGED <<cfgVars, pinVars, lockVars, call, ncalls, animVars, latch, bus>>

\* l.DisplayMode(true, false, false)
Initialize_DisplayMode(p) ==
  /\ At(p, "Initialize", "display")
  /\ stack' = Push(p, "function", DisplayModeFrame(TRUE, FALSE, FALSE))
  /\ UNCHANGED <<cfgVars, pinVars, lockVars, call, ncalls, animVars, latch, bus>>

\* l.Write(0x28, RSInstruction)
Initialize_FunctionSet(p) ==
  /\ At(p, "Initialize", "function")
  /\ stack' = Push(p, "home", WriteFrame(40, RSInstruction))
  /\ UNCHANGED <<cfgVars, pinVars, lockVars, call, ncalls, animVars, latch, bus>>

\* a slip of the order: the display is cleared where it should return home
Initialize_Clear_First(p) ==
  /\ At(p, "Initialize", "home")
  /\ stack' = Push(p, "clear", ClearFrame)
  /\ UNCHANGED <<cfgVars, pinVars, lockVars, call, ncalls, animVars, latch, bus>>

\* l.ReturnHome()
Initialize_ReturnHome(p) ==
  /\ At(p, "Initialize", "home")
  /\ stack' = Push(p, "clear", ReturnHomeFrame)
  /\ UNCHANGED <<cfgVars, pinVars, lockVars, call, ncalls, animVars, latch, bus>>

\* l.Clear()
Initialize_Clear(p) ==
  /\ At(p, "Initialize", "clear")
  /\ stack' = Push(p, "settle", ClearFrame)
  /\ UNCHANGED <<cfgVars, pinVars, lockVars, call, ncalls, animVars, latch, bus>>

\* time.Sleep(10 * time.Millisecond), and the return
Initialize_Settle(p) ==
  /\ At(p, "Initialize", "settle")
  /\ sleeps' = Slept(p, SettleTime)
  /\ stack' = Pop(p)
  /\ UNCHANGED <<LineWidth, DataPins, envVars, pinVars, lockVars, call, ncalls,
                 animVars, latch, bus>>

\* ------------------------------------------------------ SetCustomCharacters
SetCustomCharactersFrame(characters) ==
  [fn |-> "SetCustomCharacters", pc |-> "loop", characters |-> characters,
   index |-> 0]

\* a slip of the slot arithmetic: the glyphs end one slot early
Offset_Seven(n, index) == 7 - n + index

\* offset := 8 - len(characters) + index
Offset(n, index) == 8 - n + index

\* if offset < 0 { continue }
SetCustomCharacters_Skip(p) ==
  /\ At(p, "SetCustomCharacters", "loop")
  /\ Top(p).index < Len(Top(p).characters)
  /\ Offset(Len(Top(p).characters), Top(p).index) < 0
  /\ stack' = [stack EXCEPT ![p][Len(stack[p])].index = @ + 1]
  /\ UNCHANGED <<cfgVars, pinVars, lockVars, call, ncalls, animVars, latch, bus>>

\* l.CreateChar(uint8(offset), chr)
SetCustomCharacters_Create(p) ==
  /\ At(p, "SetCustomCharacters", "loop")
  /\ Top(p).index < Len(Top(p).characters)
  /\ LET offset == Offset(Len(Top(p).characters), Top(p).index)
         chr == Top(p).characters[Top(p).index + 1]
     IN /\ offset >= 0
        /\ stack' = [stack EXCEPT ![p] =
                       Append([@ EXCEPT ![Len(@)].index = @ + 1],
                              CreateCharFrame(Uint8(offset), chr))]
  /\ UNCHANGED <<cfgVars, pinVars, lockVars, call, ncalls, animVars, latch, bus>>

SetCustomCharacters_Return(p) ==
  /\ At(p, "SetCustomCharacters", "loop")
  /\ Top(p).index >= Len(Top(p).characters)
  /\ stack' = Pop(p)
  /\ UNCHANGED <<cfgVars, pinVars, lockVars, call, ncalls, animVars, latch, bus>>

\* ---------------------------------------------------- New, initPins and Open
NewFrame(n, linewidth) ==
  [fn |-> "New", pc |-> "check", n |-> n, linewidth |-> linewidth]
InitPinsFrame == [fn |-> "initPins", pc |-> "open", i |-> 0]

\* a slip of the length check: any length from four to eight passes
BadPinCount_Range(datalength) == datalength < 4 \/ datalength > 8

\* if datalength != 4 && datalength != 8
BadPinCount(datalength) == datalength # 4 /\ datalength # 8

\* return nil, errors.New(...)
New_Reject(p) ==
  /\ At(p, "New", "check")
  /\ BadPinCount(Top(p).n)
  /\ ret' = [lcd |-> FALSE, err |-> TRUE]
  /\ stack' = Pop(p)
  /\ UNCHANGED <<LineWidth, DataPins, rpioPrepared, gpio, sleeps, pinVars,
                 lockVars, call, ncalls, animVars, latch, bus>>

\* l := &LCD{...}; l.initPins()
New_Make(p) ==
  /\ At(p, "New", "check")
  /\ ~BadPinCount(Top(p).n)
  /\ LineWidth' = Top(p).linewidth
  /\ DataPins' = Top(p).n
  /\ D' = [i \in 0..(Top(p).n - 1) |-> E]
  /\ stack' = Push(p, "ret", InitPinsFrame)
  /\ UNCHANGED <<envVars, sleeps, RS, E, lockVars, call, ncalls, animVars,
                 latch, bus>>

\* return l, nil
New_Return(p) ==
  /\ At(p, "New", "ret")
  /\ ret' = [lcd |-> TRUE, err |-> FALSE]
  /\ stack' = Pop(p)
  /\ UNCHANGED <<LineWidth, DataPins, rpioPrepared, gpio, sleeps, pinVars,
                 lockVars, call, ncalls, animVars, latch, bus>>

\* if !rpioPrepared { Open() }, and rpio.Open succeeds
initPins_Open(p) ==
  /\ At(p, "initPins", "open")
  /\ ~rpioPrepared
  /\ gpio' = [gpio EXCEPT !.opens = @ + 1]
  /\ rpioPrepared' = TRUE
  /\ stack' = Goto(p, "rs")
  /\ UNCHANGED <<LineWidth, DataPins, ret, sleeps, pinVars, lockVars, call,
                 ncalls, animVars, latch, bus>>

\* if !rpioPrepared { Open() }, and rpio.Open fails: log.Fatalln ends the
\* process with all its goroutines
initPins_OpenFails(p) ==
  /\ At(p, "initPins", "open")
  /\ ~rpioPrepared
  /\ gpio' = [gpio EXCEPT !.exited = TRUE]
  /\ stack' = [q \in Procs |-> <<>>]
  /\ UNCHANGED <<LineWidth, DataPins, rpioPrepared, ret, sleeps, pinVars,
                 lockVars, call, ncalls, animVars, latch, bus>>

initPins_Prepared(p) ==
  /\ At(p, "initPins", "open")
  /\ rpioPrepared
  /\ stack' = Goto(p, "rs")
  /\ UNCHANGED <<cfgVars, pinVars, lockVars, call, ncalls, animVars, latch, bus>>

\* l.RS.Output()
initPins_RS(p) ==
  /\ At(p, "initPins", "rs")
  /\ gpio' = [gpio EXCEPT !.outputs.rs = TRUE]
  /\ stack' = Goto(p, "e")
  /\ UNCHANGED <<LineWidth, DataPins, rpioPrepared, ret, sleeps, pinVars,
                 lockVars, call, ncalls, animVars, latch, bus>>

\* l.E.Output()
initPins_E(p) ==
  /\ At(p, "initPins", "e")
  /\ gpio' = [gpio EXCEPT !.outputs.e = TRUE]
  /\ stack' = Goto(p, "data")
  /\ UNCHANGED <<LineWidth, DataPins, rpioPrepared, ret, sleeps, pinVars,
                 lockVars, call, ncalls, animVars, latch, bus>>

\* for _, d := range l.DataPins { d.Output() }
initPins_Data(p) ==
  /\ At(p, "initPins", "data")
  /\ Top(p).i < DataPins
  /\ gpio' = [gpio EXCEPT !.outputs.data = @ \cup {Top(p).i}]
  /\ stack' = [stack EXCEPT ![p][Len(stack[p])].i = @ + 1]
  /\ UNCHANGED <<LineWidth, DataPins, rpioPrepared, ret, sleeps, pinVars,
                 lockVars, call, ncalls, animVars, latch, bus>>

initPins_Return(p) ==
  /\ At(p, "initPins", "data")
  /\ Top(p).i >= DataPins
  /\ stack' = Pop(p)
  /\ UNCHANGED <<cfgVars, pinVars, lockVars, call, ncalls, animVars, latch, bus>>

\* ------------------------------------------------ the sequential model
\* One caller makes one call of Write, WriteLine or CreateChar on a display
\* of any small width and either bus width; the arguments range over every
\* byte, both modes, every position and the texts below.
TextBytes == {104, 195, 169, 226}
Hi == <<104, 105>>
Texts(width) ==
  IF width = ExampleWidth THEN {<<>>, Hi, <<195, 169>>}
  ELSE UNION {[1..n -> TextBytes] : n \in 0..MaxLen}
Glyphs == {<<0, 10, 31, 31, 14, 4, 0, 0>>, <<255, 1, 2, 4, 8, 16, 32, 64>>}
SeqWidths == 0..MaxWidth \cup {ExampleWidth}

WriteCall(data, mode) == [fn |-> "Write", data |-> data, mode |-> mode]
WriteLineCall(s, line) == [fn |-> "WriteLine", s |-> s, line |-> line]
CreateCharCall(position, data) ==
  [fn |-> "CreateChar", position |-> position, data |-> data]

\* the frame a top-level call starts with
StartFrame(op, id) ==
  CASE op.fn = "Write" -> WriteFrame(op.data, op.mode)
    [] op.fn = "WriteLine" -> WriteLineFrame(op.s, op.line)
    [] op.fn = "CreateChar" -> CreateCharFrame(op.position, op.data)
    [] op.fn = "WriteLines" -> WriteLinesFrame(op.lines)
    [] op.fn = "Animate" -> AnimateFrame(op.n, op.line, NCallers + id)
    [] op.fn = "New" -> NewFrame(op.n, op.linewidth)
    [] op.fn = "SetCustomCharacters" -> SetCustomCharactersFrame(op.characters)
    [] op.fn = "Initialize" -> InitializeFrame
    [] op.fn = "Reset" -> ResetFrame
    [] op.fn = "ReturnHome" -> ReturnHomeFrame
    [] op.fn = "Clear" -> ClearFrame
    [] op.fn = "EntryModeSet" -> EntryModeSetFrame(op.increment, op.shift)
    [] op.fn = "DisplayMode" -> DisplayModeFrame(op.display, op.cursor, op.blink)

Returned(p) == call[p].fn # "none" /\ Idle(p)

InitLocks ==
  /\ writelock = NoProc
  /\ linelock = NoProc
  /\ line1 = NoProc
  /\ line2 = NoProc

InitProcs ==
  /\ stack = [p \in Procs |-> <<>>]
  /\ call = [p \in Callers |-> NoCall]
  /\ ncalls = 0
  /\ anim = [t \in Tasks |-> NoAnimation]
  /\ done = [t \in Tasks |-> <<>>]
  /\ hist = [t \in Tasks |-> NoHistory]
  /\ latch = <<>>
  /\ bus = <<>>
  /\ sleeps = <<>>

\* the display was constructed by New: the GPIO subsystem is open and the pins
\* of the display are outputs
InitEnv ==
  /\ rpioPrepared = TRUE
  /\ gpio = [opens |-> 1, outputs |-> AllOutputs(DataPins), exited |-> FALSE]
  /\ ret = [lcd |-> TRUE, err |-> FALSE]

\* the pins are outputs at whatever level the hardware left them
InitPins ==
  \E lvl \in Levels :
    /\ RS = lvl
    /\ E = lvl
    /\ D = [i \in 0..(DataPins - 1) |-> lvl]

InitSeq(widths) ==
  /\ LineWidth \in widths
  /\ DataPins \in {4, 8}
  /\ InitEnv
  /\ InitPins
  /\ InitLocks
  /\ InitProcs

InitWrite == InitSeq({ExampleWidth})
InitLine == InitSeq(SeqWidths)

Begin(p, op) ==
  /\ Idle(p)
  /\ stack' = [stack EXCEPT ![p] = <<StartFrame(op, ncalls + 1)>>]
  /\ call' = [call EXCEPT ![p] = op @@ [id |-> ncalls + 1, saw |-> Animating(Line1)]]
  /\ ncalls' = ncalls + 1
  /\ UNCHANGED <<cfgVars, pinVars, lockVars, animVars, latch, bus>>

CallWrite == \E data \in 0..255, mode \in {RSInstruction, RSData} :
  ncalls = 0 /\ Begin(1, WriteCall(data, mode))

CallWriteLine == \E s \in Texts(LineWidth), line \in {Line1, Line2} :
  ncalls = 0 /\ Begin(1, WriteLineCall(s, line))

CallCreateChar == \E position \in 0..255, data \in Glyphs :
  ncalls = 0 /\ Begin(1, CreateCharCall(position, data))

WriteStep(p) ==
  \/ Write_Lock(p)
  \/ Write_SetRS(p)
  \/ Write_DataLow(p)
  \/ Write_SetHigh(p)
  \/ Write_SetLow(p)
  \/ Write_SetAll(p)
  \/ Write_Return(p)
  \/ enable_High(p)
  \/ enable_Low(p)
  \/ enable_Wait(p)

WriteLineStep(p) ==
  \/ WriteLine_Lock(p)
  \/ WriteLine_Addr(p)
  \/ WriteLine_Data(p)
  \/ WriteLine_Return(p)

CreateCharStep(p) ==
  \/ CreateChar_Reject(p)
  \/ CreateChar_Addr(p)
  \/ CreateChar_Row(p)
  \/ CreateChar_Return(p)

\* one Write call, of any byte in either mode
NextWrite ==
  \/ CallWrite
  \/ WriteStep(1)

SpecWrite == InitWrite /\ [][NextWrite]_vars

\* one CreateChar call, of any position
NextChar ==
  \/ CallCreateChar
  \/ CreateCharStep(1)
  \/ WriteStep(1)

SpecChar == InitWrite /\ [][NextChar]_vars

\* one WriteLine call, of any text on a display of any width
NextLine ==
  \/ CallWriteLine
  \/ WriteLineStep(1)
  \/ WriteStep(1)

SpecLine == InitLine /\ [][NextLine]_vars

NewCall(n, linewidth) == [fn |-> "New", n |-> n, linewidth |-> linewidth]

\* no display has been constructed; Open may or may not have been called
InitNew ==
  /\ LineWidth = 0
  /\ DataPins = 0
  /\ rpioPrepared \in BOOLEAN
  /\ gpio = [opens |-> 0, outputs |-> NoOutputs, exited |-> FALSE]
  /\ ret = NoResult
  /\ InitPins
  /\ InitLocks
  /\ InitProcs

CallNew == \E n \in 0..MaxPins, linewidth \in SeqWidths :
  ncalls = 0 /\ Begin(1, NewCall(n, linewidth))

NewStep(p) ==
  \/ New_Reject(p)
  \/ New_Make(p)
  \/ New_Return(p)
  \/ initPins_Open(p)
  \/ initPins_OpenFails(p)
  \/ initPins_Prepared(p)
  \/ initPins_RS(p)
  \/ initPins_E(p)
  \/ initPins_Data(p)
  \/ initPins_Return(p)

\* one call of New, with any number of data pins
NextNew ==
  \/ CallNew
  \/ NewStep(1)

SpecNew == InitNew /\ [][NextNew]_vars

SetCustomCharactersCall(characters) ==
  [fn |-> "SetCustomCharacters", characters |-> characters]

\* the i-th glyph of a list: eight rows found in no other glyph of the list
GlyphAt(i) == [k \in 1..8 |-> 8 * i + k]
GlyphList(n) == [i \in 1..n |-> GlyphAt(i)]

CallSetCustomCharacters == \E n \in 0..MaxGlyphs :
  ncalls = 0 /\ Begin(1, SetCustomCharactersCall(GlyphList(n)))

SetCustomCharactersStep(p) ==
  \/ SetCustomCharacters_Skip(p)
  \/ SetCustomCharacters_Create(p)
  \/ SetCustomCharacters_Return(p)

\* one call of SetCustomCharacters with any number of glyphs, or one call of
\* CreateChar
NextGlyphs ==
  \/ CallSetCustomCharacters
  \/ CallCreateChar
  \/ SetCustomCharactersStep(1)
  \/ CreateCharStep(1)
  \/ WriteStep(1)

SpecGlyphs == InitWrite /\ [][NextGlyphs]_vars

InitializeCall == [fn |-> "Initialize"]
ResetCall == [fn |-> "Reset"]
ReturnHomeCall == [fn |-> "ReturnHome"]
ClearCall == [fn |-> "Clear"]
EntryModeSetCall(increment, shift) ==
  [fn |-> "EntryModeSet", increment |-> increment, shift |-> shift]
DisplayModeCall(display, cursor, blink) ==
  [fn |-> "DisplayMode", display |-> display, cursor |-> cursor, blink |-> blink]

InstructionCalls ==
  {InitializeCall, ResetCall, ReturnHomeCall, ClearCall}
  \cup {EntryModeSetCall(i, s) : i \in BOOLEAN, s \in BOOLEAN}
  \cup {DisplayModeCall(d, c, b) : d \in BOOLEAN, c \in BOOLEAN, b \in BOOLEAN}

CallInstruction == \E op \in InstructionCalls : ncalls = 0 /\ Begin(1, op)

InstructionStep(p) ==
  \/ Reset_First(p)
  \/ Reset_Wait1(p)
  \/ Reset_Second(p)
  \/ Reset_Wait2(p)
  \/ ReturnHome_Write(p)
  \/ ReturnHome_Sleep(p)
  \/ EntryModeSet_Write(p)
  \/ EntryModeSet_Return(p)
  \/ DisplayMode_Write(p)
  \/ DisplayMode_Return(p)
  \/ Clear_Write(p)
  \/ Clear_Return(p)

InitializeStep(p) ==
  \/ Initialize_Reset(p)
  \/ Initialize_EntryModeSet(p)
  \/ Initialize_DisplayMode(p)
  \/ Initialize_FunctionSet(p)
  \/ Initialize_ReturnHome(p)
  \/ Initialize_Clear(p)
  \/ Initialize_Settle(p)

\* one call of Initialize or of one of the instructions it is made of
NextInit ==
  \/ CallInstruction
  \/ InitializeStep(1)
  \/ InstructionStep(1)
  \/ WriteStep(1)

SpecInit == InitWrite /\ [][NextInit]_vars

\* ------------------------------------------------ the concurrent model
\* The callers make MaxCalls calls in all on one synchronized display, each
\* as soon as its previous call has returned: WriteLines with no, one or two
\* texts, Animate of either line with an animation of up to MaxFrames frames,
\* and WriteLine and Write as the wrapper exposes them from the display.
TextA == <<97>>
TextB == <<98>>
TextC == <<99>>
WriteLinesCall(lines) == [fn |-> "WriteLines", lines |-> lines]
AnimateCall(n, line) == [fn |-> "Animate", n |-> n, line |-> line]

ConcCalls ==
  {WriteLinesCall(l) : l \in {<<>>, <<TextA>>, <<TextA, TextB>>}}
    \cup {AnimateCall(n, line) : n \in 0..MaxFrames, line \in {Line1, Line2}}
    \cup {WriteLineCall(TextC, line) : line \in {Line1, Line2}}
    \cup {WriteCall(1, RSInstruction)}

\* NewSynchronizedLCD has run Initialize, whose last write is the clear
\* instruction 0x01: the pins are as that write left them; the record of
\* the bus starts here
Init ==
  /\ LineWidth = ConcWidth
  /\ DataPins \in {4, 8}
  /\ RS = Low
  /\ E = Low
  /\ D = [i \in 0..(DataPins - 1) |-> setBitToPin(1, Shl8(1, i))]
  /\ InitEnv
  /\ InitLocks
  /\ InitProcs

\* the callers are numbered in the order of their first calls
Call(p) ==
  /\ ncalls < MaxCalls
  /\ \A q \in Callers : q < p => call[q].fn # "none"
  /\ \E op \in ConcCalls : Begin(p, op)

WriteLinesStep(p) ==
  \/ WriteLines_Lock1(p)
  \/ WriteLines_Skip1(p)
  \/ WriteLines_Unlock1(p)
  \/ WriteLines_Lock2(p)
  \/ WriteLines_Skip2(p)
  \/ WriteLines_Unlock2(p)

AnimateStep(p) ==
  \/ Animate_Lock(p)
  \/ Animate_Go(p)

DriveStep(t) ==
  \/ func1_Width(t)
  \/ func1_Frame(t)
  \/ func1_Delay(t)
  \/ func1_Unlock(t)
  \/ func1_Send(t)

Next ==
  \/ \E p \in Callers : Call(p) \/ WriteLinesStep(p) \/ AnimateStep(p) \/ Receive(p)
  \/ \E t \in Tasks : DriveStep(t)
  \/ \E p \in Procs : WriteLineStep(p) \/ WriteStep(p)

Spec == Init /\ [][Next]_vars

\* what a goroutine does once it is in a call: the scheduler lets every
\* goroutine that can run do so eventually, and a lock that stays free is
\* given to a goroutine waiting for it
Run(p) ==
  \/ WriteLinesStep(p)
  \/ AnimateStep(p)
  \/ DriveStep(p)
  \/ WriteLineStep(p)
  \/ WriteStep(p)

FairSpec == Spec /\ \A p \in Procs : WF_vars(Run(p))

\* ------------------------------------------- the display shared by goroutines
\* The callers make MaxCalls calls in all on one display, not through the
\* wrapper: WriteLine of two texts on either line, ReturnHome and Write; the
\* first call made may also be CreateChar.
TextAB == <<97, 98>>
TextCD == <<99, 100>>

BusLineCalls ==
  {WriteLineCall(s, line) : s \in {TextAB, TextCD}, line \in {Line1, Line2}}

InitBus == InitSeq({BusWidth})

CallBus(p) ==
  /\ ncalls < MaxCalls
  /\ \A q \in Callers : q < p => call[q].fn # "none"
  /\ \/ \E op \in BusLineCalls : Begin(p, op)
     \/ ncalls = 0 /\ Begin(p, CreateCharCall(BusSlot, GlyphAt(1)))
     \/ Begin(p, ReturnHomeCall)
     \/ Begin(p, WriteCall(1, RSInstruction))

NextBus ==
  \E p \in Callers :
    \/ CallBus(p)
    \/ WriteLineStep(p)
    \/ CreateChar_Addr(p)
    \/ CreateChar_Row(p)
    \/ CreateChar_Return(p)
    \/ ReturnHome_Write(p)
    \/ ReturnHome_Sleep(p)
    \/ WriteStep(p)

SpecBus == InitBus /\ [][NextBus]_vars

\* ==================================================================== claims
IsPrefix(a, b) == Len(a) <= Len(b) /\ SubSeq(b, 1, Len(a)) = a

\* what the controller has latched: <<register select, byte>> per write
BusBytes == [k \in 1..Len(bus) |-> <<bus[k].rs, bus[k].data>>]

\* the Write frame that called the enable in progress
Strobing(p) == Len(stack[p]) >= 2 /\ Top(p).fn = "enable" /\ Top(p).pc = "low"
Writer(p) == stack[p][Len(stack[p]) - 1]

PulsesPerWrite == IF DataPins = 4 THEN 2 ELSE 1

\* C8: a Write on four data pins makes exactly two enable pulses and a Write
\* on eight data pins exactly one, whatever the byte and the mode: no Write
\* ever exceeds that count and every Write has reached it when it returns.
C8_EnablePulsesPerWrite ==
  \A p \in Procs : \A k \in 1..Len(stack[p]) :
    stack[p][k].fn = "Write" =>
      /\ stack[p][k].pulses <= PulsesPerWrite
      /\ k = Len(stack[p]) /\ stack[p][k].pc = "ret" =>
           stack[p][k].pulses = PulsesPerWrite

C8_Witness ==
  /\ call[1].fn = "Write"
  /\ call[1].data = 165
  /\ call[1].mode = RSData
  /\ DataPins = 4
  /\ At(1, "Write", "ret")
  /\ Top(1).pulses = 2

\* C9: while a Write holds enable high, register-select is high iff the mode
\* is Data and the data pins carry the byte: on four pins pin i shows bit 4+i
\* at the first pulse and bit i at the second, on eight pins pin i shows bit i.
C9_PinsEncodeByte ==
  \A p \in Procs :
    Strobing(p) =>
      LET w == Writer(p)
          first == DataPins = 4 /\ w.pulses = 0
      IN /\ w.fn = "Write"
         /\ E = High
         /\ RS = High <=> w.mode = RSData
         /\ \A i \in 0..(DataPins - 1) :
              D[i] = High <=> Bit(w.data, IF first THEN 4 + i ELSE i) = 1

C9_Witness ==
  /\ call[1].fn = "Write"
  /\ call[1].data = 165
  /\ call[1].mode = RSData
  /\ DataPins = 4
  /\ Strobing(1)
  /\ Writer(1).pulses = 1
  /\ D = [i \in 0..3 |-> IF i \in {0, 2} THEN High ELSE Low]
  /\ RS = High

\* the writes CreateChar(position, data) is to make
CreateCharWrites(position, data) ==
  IF position <= 7
    THEN <<<<RSInstruction, 64 + 8 * position>>>> \o [k \in 1..8 |-> <<RSData, data[k]>>]
    ELSE <<>>

PinsUntouched == RS = E /\ \A i \in 0..(DataPins - 1) : D[i] = RS

\* C10: CreateChar with a position in 0..7 puts on the bus the instruction
\* 0x40 | position<<3 and then the 8 rows of the glyph as data writes, in
\* order, nothing else; with a position in 8..255 it writes nothing and no
\* pin changes.
C10_CreateCharWrites ==
  call[1].fn = "CreateChar" =>
    LET want == CreateCharWrites(call[1].position, call[1].data)
    IN /\ IsPrefix(BusBytes, want)
       /\ Returned(1) => BusBytes = want
       /\ call[1].position > 7 => latch = <<>> /\ PinsUntouched

C10_Witness ==
  /\ call[1].fn = "CreateChar"
  /\ call[1].position = 7
  /\ Returned(1)
  /\ Len(bus) = 9
  /\ bus[1].data = 120

\* C6: whatever the text and the width, a WriteLine call that has returned
\* has issued exactly one instruction write followed by exactly LineWidth
\* data writes, and at no moment more than that.
C6_ExactlyWidthDataWrites ==
  call[1].fn = "WriteLine" =>
    /\ Len(bus) <= 1 + LineWidth
    /\ Returned(1) =>
         /\ Len(bus) = 1 + LineWidth
         /\ bus[1].rs = RSInstruction
         /\ \A k \in 2..Len(bus) : bus[k].rs = RSData

\* the characters of s right-aligned in width columns, or its first width
\* characters
PaddedOrCut(s, width) ==
  LET r == Runes(s)
  IN IF Len(r) < width THEN Spaces(width - Len(r)) \o r ELSE SubSeq(r, 1, width)

LineWrites(s, line, width) ==
  LET t == PaddedOrCut(s, width)
  IN <<<<RSInstruction, line>>>> \o [k \in 1..Len(t) |-> <<RSData, Uint8(t[k])>>]

\* C7: a WriteLine call that has returned has put on the bus the base
\* address of the line as an instruction and then, one data write per
\* character and in order, the text padded on the left with spaces to the
\* width, or its first width characters when it is longer.
C7_AddressThenFormattedText ==
  call[1].fn = "WriteLine" /\ Returned(1) =>
    BusBytes = LineWrites(call[1].s, call[1].line, LineWidth)

\* ---------------------------------------------------- the concurrent claims
\* p is in a Write call that has made its first pin transition (register
\* select) and has not yet come back from its last enable
InFlight(p) ==
  \E k \in 1..Len(stack[p]) :
    /\ stack[p][k].fn = "Write"
    /\ \/ stack[p][k].pc \in {"low", "set", "lo"}
       \/ stack[p][k].pc = "ret" /\ k < Len(stack[p])

\* p is changing pins: in the window above, or about to set register select
Driving(p) == InFlight(p) \/ At(p, "Write", "rs")

\* C1: whoever the callers are and whatever they call, at most one Write
\* call is between its first pin transition and the end of its last enable
\* pulse, so the pin transitions of two Write calls never interleave.
C1_OneWriteInFlight ==
  \A p, q \in Procs : (Driving(p) /\ Driving(q)) => p = q

\* one Write is strobing while another goroutine waits for the bus lock
C1_Witness ==
  \E p, q \in Procs :
    /\ p # q
    /\ Strobing(p)
    /\ InFlight(p)
    /\ At(q, "Write", "lock")

\* the callers active on a line: a WriteLines call in its locked section for
\* that line, an Animate call that has locked and not yet started its drive
\* loop, a drive loop that has not yet unlocked
ActiveOn(line) ==
  {p \in Procs :
     /\ stack[p] # <<>>
     /\ \/ /\ stack[p][1].fn = "WriteLines"
           /\ stack[p][1].pc = (IF line = Line1 THEN "unlock1" ELSE "unlock2")
        \/ /\ stack[p][1].fn = "Animate"
           /\ stack[p][1].pc = "go"
           /\ stack[p][1].line = line
        \/ /\ stack[p][1].fn = "func1"
           /\ stack[p][1].pc \in {"width", "done", "delay"}
           /\ stack[p][1].line = line}

\* C2: on each of the two lines at most one caller is active at a time, and
\* it is the one that locked the mutex of the line (or the drive loop of the
\* Animate call that did).
C2_OneActivePerLine ==
  \A line \in {Line1, Line2} :
    /\ Cardinality(ActiveOn(line)) <= 1
    /\ \A p \in ActiveOn(line) :
         LineMutex(line) = (IF p \in Tasks THEN hist[p].owner ELSE p)

\* a drive loop is writing a frame to Line1 while a WriteLines call waits
\* for Line1
C2_Witness ==
  \E t \in Tasks, q \in Callers :
    /\ t \in ActiveOn(Line1)
    /\ LineOf(t) = Line1
    /\ At(q, "WriteLines", "check1")
    /\ Len(Top(q).lines) > 0

Started(t) == hist[t].owner # NoProc
\* the Animate call has locked and not yet started the drive loop
Unborn(t) == At(hist[t].owner, "Animate", "go") /\ Top(hist[t].owner).t = t
Finished(t) == Started(t) /\ hist[t].sends > 0 /\ Idle(t)

\* C3: an Animate call that has returned has locked its line; the drive loop
\* holds that lock while it writes its frames, until Done reports true; then
\* it unlocks once and sends once, the unlock first, and the send never
\* finds the channel full.
C3_AnimateHoldsLineUntilDone ==
  \A t \in Tasks :
    Started(t) =>
      LET h == hist[t]
      IN /\ h.unlocks <= 1 /\ h.sends <= 1 /\ h.recvs <= h.sends
         /\ h.sends <= h.unlocks
         /\ h.unlocks = 0 => LineMutex(h.line) = h.owner
         /\ h.unlocks = 1 => AnimationDone(anim[t]) /\ h.frames = anim[t].n
         /\ (stack[t] # <<>> /\ Top(t).fn # "func1") => h.unlocks = 0
         /\ At(t, "func1", "send") => Len(done[t]) < DoneCap
         /\ (Idle(t) /\ ~Unborn(t)) => h.unlocks = 1 /\ h.sends = 1
         /\ Len(done[t]) = h.sends - h.recvs

\* a drive loop of three frames is over, its value is still in the channel
C3_Witness ==
  \E t \in Tasks :
    /\ Finished(t)
    /\ anim[t].n = 3
    /\ hist[t].frames = 3
    /\ hist[t].unlocks = 1
    /\ done[t] = <<TRUE>>
    /\ LineMutex(hist[t].line) = NoProc

\* the positions on the bus of the writes of call id to the line
WritesOf(id, line) == {k \in 1..Len(bus) : bus[k].id = id /\ bus[k].line = line}

\* p has left the Line1 section of its WriteLines call
PastLine1(p) == Idle(p) \/ stack[p][1].pc \in {"check2", "unlock2"}

\* C4: a WriteLines call with a Line1 text, made while an animation started
\* by Animate holds Line1, neither puts a write for Line1 on the bus nor gets
\* past its Line1 write before the animation has finished: all the frame
\* writes of the animation (1 + width writes for each of its frames) are on
\* the bus before any of the call's.
C4_WriteLinesWaitsForAnimation ==
  \A q \in Callers :
    (call[q].fn = "WriteLines" /\ Len(call[q].lines) > 0) =>
      \A t \in call[q].saw :
        (WritesOf(call[q].id, Line1) # {} \/ PastLine1(q)) =>
          /\ hist[t].unlocks = 1
          /\ Cardinality(WritesOf(CallId(t), Line1)) = anim[t].n * (1 + LineWidth)
          /\ \A j \in WritesOf(CallId(t), Line1), k \in WritesOf(call[q].id, Line1) : j < k

\* the WriteLines call made during a three-frame animation of Line1 has
\* written its Line1 text
C4_Witness ==
  \E q \in Callers, t \in Tasks :
    /\ call[q].fn = "WriteLines"
    /\ t \in call[q].saw
    /\ anim[t].n = 3
    /\ Returned(q)
    /\ Cardinality(WritesOf(CallId(t), Line1)) = 3 * (1 + LineWidth)
    /\ Cardinality(WritesOf(call[q].id, Line1)) = 1 + LineWidth

\* C5: a WriteLines call made to update Line2 while an animation started by
\* Animate on Line1 is running never waits for that animation: it is never
\* held at the lock of Line1 while that drive loop is not done.
C5_Line2WriteIgnoresLine1Animation ==
  \A q \in Callers :
    (call[q].fn = "WriteLines" /\ Len(call[q].lines) > 1) =>
      \A t \in call[q].saw :
        ~(At(q, "WriteLines", "check1") /\ t \in Animating(Line1))


\* ------------------------------------------------------------ construction
\* C11: once New has returned, called with a number of data pins other than
\* 4 and 8, it has returned an error and no display, the GPIO subsystem was
\* not opened and no pin was made an output; called with 4 or 8 data pins it
\* has returned a display and no error, with the GPIO subsystem open and all
\* pins of the display outputs.
C11_NewChecksPinCount ==
  (call[1].fn = "New" /\ Idle(1) /\ ~gpio.exited) =>
    IF call[1].n \in {4, 8}
      THEN /\ ret = [lcd |-> TRUE, err |-> FALSE]
           /\ rpioPrepared
           /\ gpio.outputs = AllOutputs(call[1].n)
           /\ DataPins = call[1].n
           /\ LineWidth = call[1].linewidth
      ELSE /\ ret = [lcd |-> FALSE, err |-> TRUE]
           /\ gpio.opens = 0
           /\ gpio.outputs = NoOutputs
           /\ DataPins = 0

C11_Witness ==
  /\ call[1].fn = "New"
  /\ Idle(1)
  /\ call[1].n = 5
  /\ ~rpioPrepared
  /\ ret.err

C11_WitnessAccepted ==
  /\ call[1].fn = "New"
  /\ Idle(1)
  /\ call[1].n = 8
  /\ gpio.opens = 1
  /\ ret.lcd

\* the instruction writes of Initialize, and its waits outside enable
InitializeWrites ==
  [k \in 1..7 |-> <<RSInstruction, <<51, 50, 6, 12, 40, 2, 1>>[k]>>]
InitializeSleeps ==
  << [proc |-> 1, after |-> 1, d |-> ExecutionTimeDefault],
     [proc |-> 1, after |-> 2, d |-> ExecutionTimeDefault],
     [proc |-> 1, after |-> 6, d |-> ExecutionTimeReturnHome],
     [proc |-> 1, after |-> 7, d |-> SettleTime] >>

\* C12: Initialize puts 0x33, 0x32, 0x06, 0x0C, 0x28, 0x02, 0x01 on the bus
\* as instruction writes, in this order and with nothing else between them;
\* the return-home wait of 1520 us follows the 0x02 write and the settle wait
\* of 10 ms follows the clear write (the two waits of Reset follow 0x33 and
\* 0x32).
C12_InitializeSequence ==
  call[1].fn = "Initialize" =>
    /\ IsPrefix(BusBytes, InitializeWrites)
    /\ IsPrefix(sleeps, InitializeSleeps)
    /\ At(1, "ReturnHome", "sleep") => BusBytes = SubSeq(InitializeWrites, 1, 6)
    /\ At(1, "Initialize", "settle") => BusBytes = InitializeWrites
    /\ Returned(1) => BusBytes = InitializeWrites /\ sleeps = InitializeSleeps

C12_Witness ==
  /\ call[1].fn = "Initialize"
  /\ Returned(1)
  /\ DataPins = 4
  /\ Len(bus) = 7
  /\ bus[6].data = 2
  /\ Len(sleeps) = 4
  /\ sleeps[3].d = 1520

\* the bus writes that load the glyphs from the i-th on, the first of n into
\* slot 8 - n
RECURSIVE LoadedFrom(_, _)
LoadedFrom(characters, i) ==
  IF i > Len(characters) THEN <<>>
  ELSE CreateCharWrites(8 - Len(characters) + (i - 1), characters[i])
         \o LoadedFrom(characters, i + 1)

\* n glyphs at most 8 are all loaded; of more than 8 the first n - 8 are not
Loaded(characters) ==
  LoadedFrom(characters, IF Len(characters) <= 8 THEN 1 ELSE Len(characters) - 8 + 1)

\* C19: SetCustomCharacters with n glyphs calls CreateChar for glyph i with
\* position 8 - n + i when that is not negative and skips the glyph
\* otherwise; it never asks for a position outside 0..7; with n <= 8 every
\* glyph is loaded, into the slots 8 - n .. 7, and with n > 8 exactly the
\* first n - 8 glyphs are skipped and the other 8 fill the slots 0 .. 7.
C19_GlyphsFillUpperSlots ==
  call[1].fn = "SetCustomCharacters" =>
    LET n == Len(call[1].characters)
    IN /\ \A k \in 1..Len(stack[1]) :
            stack[1][k].fn = "CreateChar" =>
              /\ stack[1][k].position \in 0..7
              /\ stack[1][k].position = 8 - n + (stack[1][1].index - 1)
              /\ stack[1][k].data = call[1].characters[stack[1][1].index]
       /\ IsPrefix(BusBytes, Loaded(call[1].characters))
       /\ Returned(1) =>
            /\ BusBytes = Loaded(call[1].characters)
            /\ Len(bus) = 9 * (IF n <= 8 THEN n ELSE 8)

C19_Witness ==
  /\ call[1].fn = "SetCustomCharacters"
  /\ Len(call[1].characters) = 9
  /\ Returned(1)
  /\ Len(bus) = 72
  /\ bus[1].data = 64
  /\ bus[2].data = 17
  /\ bus[64].data = 120

\* ------------------------------------------------------------- termination
\* no call is in progress, every drive loop started has signalled completion
\* exactly once, and the four locks are free
Quiescent ==
  /\ \A p \in Procs : Idle(p)
  /\ \A t \in Tasks : hist[t].owner # NoProc => hist[t].sends = 1 /\ hist[t].unlocks = 1
  /\ writelock = NoProc
  /\ linelock = NoProc
  /\ line1 = NoProc
  /\ line2 = NoProc

\* C13: whatever WriteLines, Animate, WriteLine and Write calls the callers
\* make concurrently, with animations that are done after finitely many
\* frames, under fair scheduling the calls never deadlock: from some moment
\* on every call has returned, every drive loop has signalled completion and
\* line1, line2, linelock and writelock are free.
C13_EveryCallReturns == <>[]Quiescent

C13_Witness ==
  /\ Quiescent
  /\ ncalls = MaxCalls
  /\ call[1].fn = "Animate"
  /\ call[2].fn = "WriteLines"
  /\ call[1].line = Line1
  /\ call[2].saw # {}
  /\ hist[NCallers + 1].frames = MaxFrames

\* -------------------------------------------------- the display when shared
\* C14: the wait an instruction needs has elapsed before the bus is used
\* again, also with concurrent callers: while a goroutine is in the 1520 us
\* wait that follows the 0x02 write of its ReturnHome call, no other
\* goroutine is in a Write that has made its first pin transition.
C14_ReturnHomeWaitKeepsBus ==
  \A p, q \in Procs :
    (p # q /\ At(p, "ReturnHome", "sleep")) => ~InFlight(q)

\* The controller: a set-DDRAM-address instruction (0x80 | a) and a
\* set-CGRAM-address instruction (0x40 | a) set the cursor, clear and return
\* home put it at DDRAM address 0, and a data write is stored at the cursor,
\* which then advances.  The cursor is at DDRAM address 0 after Initialize.
CursorHome == [space |-> "ddram", addr |-> 0]

Latched(c, e) ==
  IF e.rs = RSData THEN [c EXCEPT !.addr = @ + 1]
  ELSE IF e.data >= 128 THEN [space |-> "ddram", addr |-> e.data - 128]
  ELSE IF e.data >= 64 THEN [space |-> "cgram", addr |-> e.data - 64]
  ELSE IF e.data \in 1..3 THEN CursorHome
  ELSE c

\* the cursor after the first k bus writes
RECURSIVE Cursor(_)
Cursor(k) == IF k = 0 THEN CursorHome ELSE Latched(Cursor(k - 1), bus[k])

\* where the data write bus[k] is stored
StoredAt(k) == Cursor(k - 1)

DataWrites == {k \in 1..Len(bus) : bus[k].rs = RSData}

\* C15: with concurrent WriteLine, WriteLines and Animate callers on Line1
\* and Line2 (and no caller of Write), every data write of a line write for
\* line L is stored in the display memory of L, at an address from base(L)
\* up to and not including base(L) + width.
C15_DataStaysInItsLine ==
  (\A k \in 1..Len(bus) : bus[k].op # "Write") =>
    \A k \in DataWrites :
      /\ bus[k].line \in {Line1, Line2}
      /\ StoredAt(k).space = "ddram"
      /\ StoredAt(k).addr >= bus[k].line - 128
      /\ StoredAt(k).addr < bus[k].line - 128 + LineWidth

\* a WriteLine on Line2 waited for linelock while a frame of a Line1
\* animation was written, and both have written their data
C15_Witness ==
  \E j, k \in DataWrites :
    /\ j < k
    /\ bus[j].op = "func1"
    /\ bus[j].line = Line1
    /\ bus[k].op = "WriteLine"
    /\ bus[k].line = Line2
    /\ call[bus[k].proc].saw # {}
    /\ StoredAt(k).addr = 64
    /\ \A p \in Callers : call[p].fn # "Write"

\* what the display memory holds at DDRAM address a: the last byte stored
\* there, a blank when none was
Cell(a) ==
  LET S == {k \in DataWrites : StoredAt(k) = [space |-> "ddram", addr |-> a]}
  IN IF S = {} THEN Space ELSE bus[CHOOSE k \in S : \A j \in S : j <= k].data

LineText(line) == [i \in 1..LineWidth |-> Cell(line - 128 + i - 1)]

\* the bytes of s as a line of the display shows them
Shown(s) == LET t == PaddedOrCut(s, LineWidth) IN [k \in 1..Len(t) |-> Uint8(t[k])]

\* the bus writes of call i and of call j are two blocks, not interleaved
Apart(i, j) ==
  \A a, b, c \in 1..Len(bus) :
    (a < b /\ b < c /\ bus[a].id = bus[c].id /\ bus[a].id \in {i, j})
      => bus[b].id \notin ({i, j} \ {bus[a].id})

\* p and q are callers whose latest calls are WriteLine calls
LineWriters(p, q) ==
  /\ p # q
  /\ call[p].fn = "WriteLine"
  /\ call[q].fn = "WriteLine"

\* p's WriteLine has its address instruction on the bus and not yet its last
\* data write
MidLine(p) ==
  /\ ~Idle(p)
  /\ Cardinality(WritesOf(call[p].id, call[p].line)) \in 1..LineWidth

\* C16: two concurrent WriteLine calls to the same line do not interleave
\* their writes: the address instruction and the data writes of each form
\* one block, and when both have returned (no other call having written) the
\* line holds the complete text of one of the two.
C16_SameLineCallsDoNotInterleave ==
  \A p, q \in Callers :
    (LineWriters(p, q) /\ call[p].line = call[q].line) =>
      /\ Apart(call[p].id, call[q].id)
      /\ (Returned(p) /\ Returned(q)
            /\ \A k \in 1..Len(bus) : bus[k].id \in {call[p].id, call[q].id})
           => LineText(call[p].line) \in {Shown(call[p].s), Shown(call[q].s)}

\* one WriteLine waits for the line-operation lock while another, of another
\* text for the same line, is between its address and its last data write
C16_Witness ==
  \E p, q \in Callers :
    /\ LineWriters(p, q)
    /\ call[p].line = call[q].line
    /\ call[p].s # call[q].s
    /\ MidLine(p)
    /\ At(q, "WriteLine", "lock")

\* C17: between a WriteLine for Line1 and a concurrent WriteLine for Line2
\* only the bus lock orders the bus writes, so that a data write of one can
\* fall between the address instruction and the last data write of the
\* other: a WriteLine about to lock can go on while a WriteLine for the
\* other line is between its address instruction and its last data write.
C17_OtherLineGoesOn ==
  \A p, q \in Callers :
    (LineWriters(p, q) /\ call[p].line # call[q].line
       /\ MidLine(p) /\ At(q, "WriteLine", "lock"))
      => ENABLED WriteLine_Lock(q)

\* C17, amended: a WriteLine for Line1 and a concurrent WriteLine for Line2
\* are ordered by linelock, the one lock WriteLine takes whatever the line:
\* their bus writes do not interleave, no write of one falls between the
\* address instruction and the last data write of the other, and the second
\* call starts writing only when the first has written its whole line.
C17_LinesDoNotInterleave ==
  \A p, q \in Callers :
    (LineWriters(p, q) /\ call[p].line # call[q].line) =>
      /\ Apart(call[p].id, call[q].id)
      /\ MidLine(p) => WritesOf(call[q].id, call[q].line) = {} \/ Returned(q)

\* a WriteLine for Line2 waits for linelock while a WriteLine for Line1 is
\* between its address and its last data write
C17_Witness ==
  \E p, q \in Callers :
    /\ LineWriters(p, q)
    /\ call[p].line = Line1
    /\ call[q].line = Line2
    /\ MidLine(p)
    /\ At(q, "WriteLine", "lock")
    /\ linelock = p

\* C18: while an animation started by Animate holds Line1, every other
\* attempt to write Line1 through the synchronized display waits, also a
\* WriteLine called on it directly: such a call, made while the animation
\* holds the line, has no write on the bus before the animation has
\* unlocked the line.
C18_DirectWriteLineWaits ==
  \A q \in Callers :
    (call[q].fn = "WriteLine" /\ call[q].line = Line1) =>
      \A t \in call[q].saw :
        WritesOf(call[q].id, Line1) # {} => hist[t].unlocks = 1

\* C20: the nine bus writes of a CreateChar call are not interleaved with
\* the writes of a concurrent WriteLine: no write of a WriteLine lies
\* between two writes of the call, and its eight rows are stored in the
\* CGRAM slot the call addressed, none of them in display memory (the other
\* writers being WriteLine calls only).
C20_CreateCharWritesStayTogether ==
  (\A k \in 1..Len(bus) : bus[k].op \in {"CreateChar", "WriteLine"}) =>
    \A a, c \in 1..Len(bus) :
      (a < c /\ bus[a].op = "CreateChar" /\ bus[c].op = "CreateChar"
         /\ bus[a].id = bus[c].id) =>
        /\ \A b \in a..c : bus[b].op # "WriteLine"
        /\ bus[c].rs = RSData =>
             /\ StoredAt(c).space = "cgram"
             /\ StoredAt(c).addr \in (8 * BusSlot)..(8 * BusSlot + 7)

====
